---- MODULE Spec2Model ----
(***************************************************************************)
(* News-Feed: the ArticleProvider store of src/src/App.js (lines 1-160).   *)
(* A published document is fetched, parsed into remote articles, merged    *)
(* with the local articles kept in localStorage, and exposed with the      *)
(* operations fetchArticles, addArticle and deleteArticle.                 *)
(*                                                                         *)
(* Representation.                                                         *)
(*  - A string that the code inspects character by character (a headline,  *)
(*    a slug) is a tuple of one-character strings.                         *)
(*  - A Date is its time value, a natural number of milliseconds; the      *)
(*    model's instants are small numbers.  An ISO string is <<"iso", n>>.  *)
(*  - An optional value is <<>> (absent) or <<v>>.                         *)
(*  - The fetched HTML is abstracted to what the parser reads of it: which *)
(*    content container it has, and the segments that follow the           *)
(*    "News N (dd/mm/yyyy):" markers of its flattened text, each with the  *)
(*    date token of its marker and its Headline / Body / Author fields.    *)
(*    The documents of the model hold no Drive links, so imageUrl is ''.   *)
(***************************************************************************)
EXTENDS Integers, Sequences, FiniteSets, TLC

VARIABLES
    articles,   \* useState([])      App.js:97
    loading,    \* useState(true)    App.js:98
    error,      \* useState(null)    App.js:99   <<>> is null, <<m>> a message
    storage,    \* localStorage item LOCAL_STORAGE_KEY
    pending,    \* fetches issued and not yet settled
    mounted,    \* whether the mount effect (App.js:126-128) has run
    clock,      \* Date.now()
    last,       \* the operation that ran last, with what it read (history)
    settled,    \* the fetches settled since a fetch was last issued with none
                \* in flight, in the order they settled: the last of them (history)
    page,       \* the mounted ArticlePage, <<>> when the route shows none
    img,        \* the <img> element of an article image, <<>> when none is shown
    call,       \* the application of a pure function under study, <<>> when none
    cachedArticles  \* the module-level cache of useNews, App.js:604: <<>> is null,
                \* <<list>> a cached list

\* the ArticleProvider and its environment
storeVars == <<articles, loading, error, storage, pending, mounted, clock, last, settled>>

\* what no operation of the ArticleProvider touches
nonStore == <<page, img, call, cachedArticles>>

vars == <<articles, loading, error, storage, pending, mounted, clock, last, settled,
          page, img, call, cachedArticles>>

----------------------------------------------------------------------------
(* Bounds of the model *)

MaxTime == 2        \* instants are 0..MaxTime (clock readings and dates)
MaxSegs == 2        \* segments of one fetched document
MaxArticles == 2    \* addArticle is not taken on a list this long
MaxInFlight == 2    \* overlapping fetches

(* Program constants *)

SlugMax == 50

----------------------------------------------------------------------------
(* Generic helpers *)

Min(a, b) == IF a < b THEN a ELSE b

Range(s) == {s[i] : i \in 1..Len(s)}

RECURSIVE SeqsUpTo(_, _)
SeqsUpTo(S, n) ==
    IF n = 0 THEN {<<>>}
    ELSE LET shorter == SeqsUpTo(S, n - 1)
         IN  shorter \cup {Append(s, x) : s \in {t \in shorter : Len(t) = n - 1}, x \in S}

SeqsOfLen(S, n) == {s \in SeqsUpTo(S, n) : Len(s) = n}

Null == <<>>

----------------------------------------------------------------------------
(* createSlug, App.js:18-20 *)

UpperCase == <<"A","B","C","D","E","F","G","H","I","J","K","L","M",
               "N","O","P","Q","R","S","T","U","V","W","X","Y","Z">>
LowerCase == <<"a","b","c","d","e","f","g","h","i","j","k","l","m",
               "n","o","p","q","r","s","t","u","v","w","x","y","z">>
Digits == {"0","1","2","3","4","5","6","7","8","9"}

LowerOf == [c \in Range(UpperCase) |->
                LowerCase[CHOOSE i \in 1..Len(UpperCase) : UpperCase[i] = c]]

\* String.prototype.toLowerCase on one character
ToLowerChar(c) == IF c \in DOMAIN LowerOf THEN LowerOf[c] ELSE c

toLowerCase(s) == [i \in 1..Len(s) |-> ToLowerChar(s[i])]

\* the character class [a-z0-9]
SlugChars == Range(LowerCase) \cup Digits
IsSlugChar(c) == c \in SlugChars

\* .replace(/[^a-z0-9]+/g, '-'): each maximal run of other characters -> '-'
RECURSIVE ReplaceRunsFrom(_, _, _)
ReplaceRunsFrom(s, i, inRun) ==
    IF i > Len(s) THEN <<>>
    ELSE IF IsSlugChar(s[i]) THEN <<s[i]>> \o ReplaceRunsFrom(s, i + 1, FALSE)
    ELSE (IF inRun THEN <<>> ELSE <<"-">>) \o ReplaceRunsFrom(s, i + 1, TRUE)

ReplaceRuns(s) == ReplaceRunsFrom(s, 1, FALSE)

\* .replace(/^-+|-+$/g, '')
RECURSIVE StripLeading(_)
StripLeading(s) ==
    IF s # <<>> /\ Head(s) = "-" THEN StripLeading(Tail(s)) ELSE s

RECURSIVE StripTrailing(_)
StripTrailing(s) ==
    IF s # <<>> /\ s[Len(s)] = "-" THEN StripTrailing(SubSeq(s, 1, Len(s) - 1)) ELSE s

StripHyphens(s) == StripTrailing(StripLeading(s))

\* .slice(0, n)
Slice(s, n) == SubSeq(s, 1, Min(n, Len(s)))

\* faulty variant: leading and trailing hyphens are kept
createSlugUnstripped(title) == Slice(ReplaceRuns(toLowerCase(title)), SlugMax)

createSlug(title) == Slice(StripHyphens(ReplaceRuns(toLowerCase(title))), SlugMax)

----------------------------------------------------------------------------
(* Dates *)

\* parseDate, App.js:22-29, on a token the header regex matched: the token
\* [day |-> n] is the dd/mm/yyyy text of the calendar day whose UTC midnight is
\* instant n, so the match succeeds and Date.UTC gives n
parseDate(dateStr) == dateStr.day

\* Date.prototype.toJSON and new Date(isoString)
toISOString(date) == <<"iso", date>>
newDate(iso) == iso[2]

----------------------------------------------------------------------------
(* Stable sort by date descending: Array.prototype.sort with the comparator  *)
(* (a, b) => new Date(b.date) - new Date(a.date), App.js:90, 116, 133        *)

RECURSIVE InsertByDateDesc(_, _)
InsertByDateDesc(s, x) ==
    IF s = <<>> THEN <<x>>
    ELSE IF Head(s).date >= x.date THEN <<Head(s)>> \o InsertByDateDesc(Tail(s), x)
    ELSE <<x>> \o s

RECURSIVE SortFrom(_, _, _)
SortFrom(s, i, acc) ==
    IF i > Len(s) THEN acc ELSE SortFrom(s, i + 1, InsertByDateDesc(acc, s[i]))

\* faulty variant of the sort: ascending order
SortByDateAsc(s) ==
    LET d == SortFrom(s, 1, <<>>) IN [i \in 1..Len(d) |-> d[Len(d) + 1 - i]]

SortByDateDesc(s) == SortFrom(s, 1, <<>>)

----------------------------------------------------------------------------
(* Input domains *)

Storm == <<"S","t","o","r","m">>
HeavyRain == <<"H","e","a","v","y"," ","r","a","i","n"," ","f","e","l","l",".">>
JDoe == <<"J","."," ","D","o","e">>
LocalBody == <<"L","o","c","a","l"," ","b","o","d","y">>
Ann == <<"A","n","n">>
EarlierBody == <<"E","a","r","l","i","e","r"," ","b","o","d","y">>
StormBang == <<"s","t","o","r","m","!">>
Fire == <<"F","i","r","e">>

NoHeadline == <<"N","o"," ","h","e","a","d","l","i","n","e">>
NoContent == <<"N","o"," ","c","o","n","t","e","n","t"," ","a","v","a","i","l","a","b","l","e">>
UnknownAuthor == <<"U","n","k","n","o","w","n"," ","a","u","t","h","o","r">>

\* what follows one header marker: the date token and the three fields; <<>> is
\* a marker that is absent.  Two segments: one complete on the first day, one with
\* no marker at all on the last day.
Segments ==
    { [ dateStr |-> [day |-> 1], headline |-> <<Storm>>,
        body |-> <<HeavyRain>>, author |-> <<JDoe>> ],
      [ dateStr |-> [day |-> MaxTime], headline |-> <<>>,
        body |-> <<>>, author |-> <<>> ] }

\* what a successful response carries: every document with a .doc-content
\* container, and the one-segment documents with #contents or with neither
Docs ==
    [root : {"doc-content"}, segs : SeqsUpTo(Segments, MaxSegs)]
        \cup [root : {"contents", "none"}, segs : SeqsOfLen(Segments, 1)]

\* Math.random() once per parsed segment: two of the values it can return.
\* Ids are only compared for equality, so the first value of a parse is fixed.
RandomValues == {0, 1}
Rands(n) == {r \in SeqsOfLen(RandomValues, n) : n > 0 => r[1] = 0}

\* what AdminDashboard.handleSubmit (App.js:401-417) passes to addArticle
\* (it always passes a date)
Draft(h, d) ==
    [ headline |-> h, body |-> LocalBody, author |-> Ann, imageUrl |-> "",
      date |-> <<d>>, dateStr |-> <<d>> ]

Drafts == {Draft(StormBang, 1), Draft(Fire, MaxTime)}

\* err.message of a rejected fetch (transport error), App.js:105
TransportMessages == {"Failed to fetch"}

----------------------------------------------------------------------------
(* parseGoogleDocArticles, App.js:37-91 *)

\* one iteration of the loop, App.js:47-89
parseSegment(seg, now, rnd) ==
    LET headline == IF seg.headline = <<>> THEN NoHeadline ELSE seg.headline[1]
        body == IF seg.body = <<>> THEN NoContent ELSE seg.body[1]
        author == IF seg.author = <<>> THEN UnknownAuthor ELSE seg.author[1]
    IN  [ id |-> <<"gdoc", now, rnd>>,
          date |-> parseDate(seg.dateStr),
          dateStr |-> <<seg.dateStr.day>>,
          headline |-> headline,
          body |-> body,
          author |-> author,
          imageUrl |-> "",
          slug |-> createSlug(headline),
          isLocal |-> FALSE ]

\* faulty variant: a document without a content container is parsed anyway
parseIgnoringRoot(htmlContent, now, rnds) ==
    SortByDateDesc([i \in 1..Len(htmlContent.segs) |->
                        parseSegment(htmlContent.segs[i], now, rnds[i])])

parseGoogleDocArticles(htmlContent, now, rnds) ==
    IF htmlContent.root = "none" THEN <<>>
    ELSE SortByDateDesc([i \in 1..Len(htmlContent.segs) |->
                            parseSegment(htmlContent.segs[i], now, rnds[i])])

----------------------------------------------------------------------------
(* localStorage item LOCAL_STORAGE_KEY: [kind, items]                      *)
(*   kind "null"    : getItem returns null                                 *)
(*   kind "array"   : the text JSON.stringify produced for a list, items   *)
(*   kind "foreign" : a text that is not the JSON of a list of articles    *)

NoItem == [kind |-> "null", items |-> <<>>]
ForeignItem == [kind |-> "foreign", items |-> <<>>]

\* JSON.stringify of one article: the date becomes its ISO string
Stringify(a) == [a EXCEPT !.date = toISOString(a.date)]

\* faulty variant: the date text is not read back (new Date(null) is the epoch)
HydrateAsEpoch(j) == [j EXCEPT !.date = 0]

\* JSON.parse of one record followed by a.date = new Date(a.date), App.js:110
Hydrate(j) == [j EXCEPT !.date = newDate(j.date)]

\* JSON.stringify(localToSave), App.js:131-132
setItem(list) == [kind |-> "array", items |-> [i \in 1..Len(list) |-> Stringify(list[i])]]

\* JSON.parse(localStorage.getItem(KEY) || '[]') and the re-hydration of the
\* dates, App.js:109-110; throws is TRUE when JSON.parse or forEach throws
readLocal ==
    CASE storage.kind = "null"    -> [throws |-> FALSE, list |-> <<>>, message |-> ""]
      [] storage.kind = "array"   -> [throws |-> FALSE,
                                      list |-> [i \in 1..Len(storage.items) |->
                                                    Hydrate(storage.items[i])],
                                      message |-> ""]
      [] storage.kind = "foreign" -> [throws |-> TRUE, list |-> <<>>,
                                      message |-> "Unexpected token in JSON"]

\* a local article an earlier session added at instant 0 and persisted
EarlierArticle ==
    [ id |-> <<"local", 0, 0>>, date |-> 1, dateStr |-> <<1>>, headline |-> Storm,
      body |-> EarlierBody, author |-> Ann, imageUrl |-> "",
      slug |-> createSlug(Storm), isLocal |-> TRUE ]

----------------------------------------------------------------------------
(* The merge of fetchAndMergeArticles, App.js:111-116 *)

\* faulty variant: the remote articles are not filtered by slug
combineWithoutFilter(localArticles, gdocArticles) == localArticles \o gdocArticles

\* the array `combined` before it is sorted, App.js:111-115
combine(localArticles, gdocArticles) ==
    LET localSlugs == {localArticles[i].slug : i \in 1..Len(localArticles)}
        kept(a) == a.slug \notin localSlugs
    IN  localArticles \o SelectSeq(gdocArticles, kept)

----------------------------------------------------------------------------
(* History: what the last operation was and what it read *)

NoArticle == <<>>

Hist(op) ==
    [ op |-> op,
      presort |-> articles,      \* the list the operation handed to sort
      gdoc |-> <<>>,             \* the parsed remote articles
      root |-> "",               \* the content container of the document
      draft |-> NoArticle,       \* <<draft>> of addArticle
      id |-> <<>>,               \* <<id>> of deleteArticle
      alert |-> FALSE ]          \* whether the operation called alert()

\* the settled fetches with one more, keeping the last MaxInFlight of them
Settle(e) ==
    LET all == Append(settled, e)
    IN  SubSeq(all, IF Len(all) > MaxInFlight THEN Len(all) - MaxInFlight + 1 ELSE 1, Len(all))

----------------------------------------------------------------------------
(* The state after construction, App.js:97-99.  localStorage holds what an  *)
(* earlier session of the program left: nothing, or a list it saved.        *)

InitStorages == {NoItem, setItem(<<EarlierArticle>>)}

InitStore(stores) ==
    /\ articles = <<>>
    /\ loading = TRUE
    /\ error = Null
    /\ storage \in stores
    /\ pending = 0
    /\ mounted = FALSE
    /\ clock = 1
    /\ last = Hist("init")
    /\ settled = <<>>

InitWith(stores) ==
    /\ InitStore(stores)
    /\ cachedArticles = Null
    /\ page = <<>>
    /\ img = <<>>
    /\ call = <<>>

Init == InitWith(InitStorages)

\* localStorage may also hold a text this program did not write
InitAnyStorage == InitWith(InitStorages \cup {ForeignItem})

----------------------------------------------------------------------------
(* fetchAndMergeArticles, App.js:101-124 *)

\* up to the await of fetch, App.js:103-105
startFetch(op) ==
    /\ loading' = TRUE
    /\ error' = Null
    /\ pending' = pending + 1
    /\ last' = Hist(op)
    /\ settled' = IF pending = 0 THEN <<>> ELSE settled
    /\ UNCHANGED <<articles, storage, clock>>
    /\ UNCHANGED nonStore

\* the mount effect, App.js:126-128
Mount ==
    /\ ~mounted
    /\ mounted' = TRUE
    /\ startFetch("mount")

\* "Refresh News" / "Try Again", App.js:225, 289: NewsViewer renders the two
\* buttons only when loading is false (App.js:224)
FetchArticles ==
    /\ mounted
    /\ ~loading
    /\ startFetch("fetchArticles")
    /\ UNCHANGED mounted

\* fetchArticles called through the context (App.js:157) while a fetch is in
\* flight: the function itself has no guard
FetchArticlesOverlapping ==
    /\ mounted
    /\ pending > 0
    /\ pending + Len(settled) < MaxInFlight
    /\ startFetch("fetchArticles")
    /\ UNCHANGED mounted

\* faulty variant: a failed fetch is issued again at once
fetchRejectedRetrying(message) ==
    /\ pending > 0
    /\ error' = <<message>>
    /\ loading' = TRUE
    /\ last' = Hist("refreshFailed")
    /\ settled' = Settle([outcome |-> "failed", k |-> 1])
    /\ UNCHANGED <<articles, storage, pending, mounted, clock>>
    /\ UNCHANGED nonStore

\* faulty variant: a failed refresh clears the list
fetchRejectedClearing(message) ==
    /\ pending > 0
    /\ error' = <<message>>
    /\ loading' = FALSE
    /\ pending' = pending - 1
    /\ articles' = <<>>
    /\ last' = Hist("refreshFailed")
    /\ \E k \in 1..pending : settled' = Settle([outcome |-> "failed", k |-> k])
    /\ UNCHANGED <<storage, mounted, clock>>
    /\ UNCHANGED nonStore

\* faulty variant: the catch without the finally
fetchRejectedWithoutFinally(message) ==
    /\ pending > 0
    /\ error' = <<message>>
    /\ pending' = pending - 1
    /\ last' = Hist("refreshFailed")
    /\ \E k \in 1..pending : settled' = Settle([outcome |-> "failed", k |-> k])
    /\ UNCHANGED <<articles, loading, storage, mounted, clock>>
    /\ UNCHANGED nonStore

\* the fetch rejects or the status is not ok: catch and finally, App.js:106, 118-123
fetchRejected(message) ==
    /\ pending > 0
    /\ error' = <<message>>
    /\ loading' = FALSE
    /\ pending' = pending - 1
    /\ last' = Hist("refreshFailed")
    /\ \E k \in 1..pending : settled' = Settle([outcome |-> "failed", k |-> k])
    /\ UNCHANGED <<articles, storage, mounted, clock>>
    /\ UNCHANGED nonStore

\* faulty variant: a response is dropped when a fetch issued with it has
\* already delivered a list
fetchResolvedFirstWins(htmlContent, rnds) ==
    /\ pending > 0
    /\ LET gdocArticles == parseGoogleDocArticles(htmlContent, clock, rnds)
           combined == combine(readLocal.list, gdocArticles)
           first == \A i \in 1..Len(settled) : settled[i].outcome # "ok"
       IN  /\ articles' = IF first THEN SortByDateDesc(combined) ELSE articles
           /\ last' = [Hist("refreshOk") EXCEPT !.gdoc = gdocArticles,
                                                 !.presort = IF first THEN combined ELSE articles,
                                                 !.root = htmlContent.root]
    /\ UNCHANGED error
    /\ loading' = FALSE
    /\ pending' = pending - 1
    /\ \E k \in 1..pending : settled' = Settle([outcome |-> "ok", k |-> k])
    /\ UNCHANGED <<storage, mounted, clock>>
    /\ UNCHANGED nonStore

\* faulty variant: the list is set to the parsed articles alone
fetchResolvedRemoteOnly(htmlContent, rnds) ==
    /\ pending > 0
    /\ LET gdocArticles == parseGoogleDocArticles(htmlContent, clock, rnds)
       IN  /\ articles' = SortByDateDesc(gdocArticles)
           /\ last' = [Hist("refreshOk") EXCEPT !.gdoc = gdocArticles,
                                                 !.presort = gdocArticles,
                                                 !.root = htmlContent.root]
    /\ UNCHANGED error
    /\ loading' = FALSE
    /\ pending' = pending - 1
    /\ \E k \in 1..pending : settled' = Settle([outcome |-> "ok", k |-> k])
    /\ UNCHANGED <<storage, mounted, clock>>
    /\ UNCHANGED nonStore

\* the response is ok: App.js:107-117, then catch / finally
fetchResolved(htmlContent, rnds) ==
    /\ pending > 0
    /\ LET gdocArticles == parseGoogleDocArticles(htmlContent, clock, rnds)
           loc == readLocal
           combined == combine(loc.list, gdocArticles)
       IN  IF loc.throws
           THEN /\ error' = <<loc.message>>
                /\ UNCHANGED articles
                /\ last' = [Hist("refreshThrew") EXCEPT !.gdoc = gdocArticles,
                                                         !.root = htmlContent.root]
           ELSE /\ articles' = SortByDateDesc(combined)
                /\ UNCHANGED error
                /\ last' = [Hist("refreshOk") EXCEPT !.gdoc = gdocArticles,
                                                      !.presort = combined,
                                                      !.root = htmlContent.root]
    /\ loading' = FALSE
    /\ pending' = pending - 1
    /\ \E k \in 1..pending : settled' = Settle([outcome |-> "ok", k |-> k])
    /\ UNCHANGED <<storage, mounted, clock>>
    /\ UNCHANGED nonStore

ResponseOk == \E htmlContent \in Docs : \E rnds \in Rands(Len(htmlContent.segs)) :
                  fetchResolved(htmlContent, rnds)

ResponseFailed == \E message \in {"Failed to fetch base news"} \cup TransportMessages :
                      fetchRejected(message)

----------------------------------------------------------------------------
(* saveArticles, addArticle, deleteArticle, App.js:130-155 *)

\* faulty variant: the list is shown but not written to localStorage
saveWithoutPersisting(updatedArticles) ==
    [ storage |-> storage, articles |-> SortByDateDesc(updatedArticles) ]

\* faulty variant: the whole list is written to localStorage
saveUnfiltered(updatedArticles) ==
    [ storage |-> setItem(updatedArticles), articles |-> SortByDateDesc(updatedArticles) ]

\* faulty variant: the list set is the list written, the local articles alone
saveLocalOnly(updatedArticles) ==
    LET isLocal(a) == a.isLocal
    IN  [ storage |-> setItem(SelectSeq(updatedArticles, isLocal)),
          articles |-> SortByDateDesc(SelectSeq(updatedArticles, isLocal)) ]

\* saveArticles, App.js:130-134: the item written and the list set
saveArticles(updatedArticles) ==
    LET isLocal(a) == a.isLocal
    IN  [ storage |-> setItem(SelectSeq(updatedArticles, isLocal)),
          articles |-> SortByDateDesc(updatedArticles) ]

\* faulty variant: the new article is not marked local
newArticleUnmarked(newArticleData, now) ==
    [ id |-> <<"local", now, 0>>,
      date |-> IF newArticleData.date = <<>> THEN now ELSE newArticleData.date[1],
      dateStr |-> newArticleData.dateStr,
      headline |-> newArticleData.headline,
      body |-> newArticleData.body,
      author |-> newArticleData.author,
      imageUrl |-> newArticleData.imageUrl,
      slug |-> createSlug(newArticleData.headline),
      isLocal |-> FALSE ]

\* the record addArticle builds, App.js:137-144
newArticle(newArticleData, now) ==
    [ id |-> <<"local", now, 0>>,
      date |-> IF newArticleData.date = <<>> THEN now ELSE newArticleData.date[1],
      dateStr |-> newArticleData.dateStr,
      headline |-> newArticleData.headline,
      body |-> newArticleData.body,
      author |-> newArticleData.author,
      imageUrl |-> newArticleData.imageUrl,
      slug |-> createSlug(newArticleData.headline),
      isLocal |-> TRUE ]

addArticle(newArticleData) ==
    LET updated == <<newArticle(newArticleData, clock)>> \o articles
        saved == saveArticles(updated)
    IN  /\ storage' = saved.storage
        /\ articles' = saved.articles
        /\ last' = [Hist("add") EXCEPT !.draft = <<newArticleData>>, !.presort = updated]
        /\ UNCHANGED <<loading, error, pending, mounted, clock, settled>>
        /\ UNCHANGED nonStore

AddArticle ==
    /\ mounted
    /\ Len(articles) < MaxArticles
    /\ \E newArticleData \in Drafts : addArticle(newArticleData)

\* articles.find(a => a.id === articleId): <<>> is undefined
find(articleId) ==
    LET hits == {i \in 1..Len(articles) : articles[i].id = articleId}
    IN  IF hits = {} THEN <<>>
        ELSE <<articles[CHOOSE i \in hits : \A j \in hits : i <= j]>>

\* faulty variant: remote articles are deleted like local ones
deleteUnguarded(articleId) ==
    LET keep(a) == a.id # articleId
        updated == SelectSeq(articles, keep)
        saved == saveArticles(updated)
    IN  /\ storage' = saved.storage
        /\ articles' = saved.articles
        /\ last' = [Hist("delete") EXCEPT !.id = <<articleId>>, !.presort = updated]
        /\ UNCHANGED <<loading, error, pending, mounted, clock, settled>>
        /\ UNCHANGED nonStore

deleteArticle(articleId) ==
    LET articleToDelete == find(articleId)
        keep(a) == a.id # articleId
        updated == SelectSeq(articles, keep)
        saved == saveArticles(updated)
    IN  IF articleToDelete # <<>> /\ ~articleToDelete[1].isLocal
        THEN /\ last' = [Hist("deleteRejected") EXCEPT !.id = <<articleId>>,
                                                        !.alert = TRUE]
             /\ UNCHANGED <<articles, storage, loading, error, pending, mounted, clock,
                             settled>>
             /\ UNCHANGED nonStore
        ELSE /\ storage' = saved.storage
             /\ articles' = saved.articles
             /\ last' = [Hist("delete") EXCEPT !.id = <<articleId>>, !.presort = updated]
             /\ UNCHANGED <<loading, error, pending, mounted, clock, settled>>
             /\ UNCHANGED nonStore

\* an id no listed article has
UnlistedId == <<"local", MaxTime + 1, 0>>

DeleteArticle ==
    /\ mounted
    /\ \E articleId \in {articles[i].id : i \in 1..Len(articles)} \cup {UnlistedId} :
           deleteArticle(articleId)

\* the wall clock advances
Tick ==
    /\ clock < MaxTime
    /\ clock' = clock + 1
    /\ last' = Hist("tick")
    /\ UNCHANGED <<articles, loading, error, storage, pending, mounted, settled>>
    /\ UNCHANGED nonStore

Next ==
    \/ Mount
    \/ FetchArticles
    \/ ResponseOk
    \/ ResponseFailed
    \/ AddArticle
    \/ DeleteArticle
    \/ Tick

Spec == Init /\ [][Next]_vars

SpecAnyStorage == InitAnyStorage /\ [][Next]_vars

\* the refreshes alone, a refresh being also issued while another is in flight
NextOverlapping ==
    \/ Mount
    \/ FetchArticles
    \/ FetchArticlesOverlapping
    \/ ResponseOk
    \/ ResponseFailed

SpecOverlapping == Init /\ [][NextOverlapping]_vars

----------------------------------------------------------------------------
(* convertGoogleDriveUrl, App.js:12-16.  A URL is the tuple of its characters. *)

\* sub occurs in s at index i
OccursAt(sub, s, i) ==
    /\ i + Len(sub) - 1 <= Len(s)
    /\ SubSeq(s, i, i + Len(sub) - 1) = sub

\* String.prototype.includes
includes(s, sub) == \E i \in 1..Len(s) : OccursAt(sub, s, i)

\* the longest run of characters of class C that starts at index i of s
RECURSIVE RunFrom(_, _, _)
RunFrom(s, i, C) ==
    IF i > Len(s) \/ s[i] \notin C THEN <<>> ELSE <<s[i]>> \o RunFrom(s, i + 1, C)

DriveHost == <<"d","r","i","v","e",".","g","o","o","g","l","e",".","c","o","m">>
FileD == <<"/","f","i","l","e","/","d","/">>
ExportView == <<"h","t","t","p","s",":","/","/","d","r","i","v","e",".","g","o","o","g","l","e",".","c","o","m","/","u","c","?","e","x","p","o","r","t","=","v","i","e","w","&","i","d","=">>

\* the character class [a-zA-Z0-9_-]
FileIdChars == Range(LowerCase) \cup Range(UpperCase) \cup Digits \cup {"_", "-"}

\* url.match(/\/file\/d\/([a-zA-Z0-9_-]+)/): <<>> is null, <<id>> the group of
\* the leftmost match
matchFileD(url) ==
    LET at == {i \in 1..Len(url) : /\ OccursAt(FileD, url, i)
                                   /\ RunFrom(url, i + Len(FileD), FileIdChars) # <<>>}
    IN  IF at = {} THEN <<>>
        ELSE <<RunFrom(url, (CHOOSE i \in at : \A j \in at : i <= j) + Len(FileD),
                       FileIdChars)>>

\* faulty variant: the id is appended to the URL that was given
convertAppending(url) ==
    IF url = <<>> \/ ~includes(url, DriveHost) THEN url
    ELSE LET match == matchFileD(url)
         IN  IF match # <<>> THEN url \o <<"&","i","d","=">> \o match[1] ELSE url

convertGoogleDriveUrl(url) ==
    IF url = <<>> \/ ~includes(url, DriveHost) THEN url
    ELSE LET match == matchFileD(url)
         IN  IF match # <<>> THEN ExportView \o match[1] ELSE url

\* the pieces the URLs of the model are made of
UrlAtoms ==
    { <<"h","t","t","p","s",":","/","/","d","r","i","v","e",".","g","o","o","g","l","e",".","c","o","m">>, <<"h","t","t","p","s",":","/","/","e","x","a","m","p","l","e",".","c","o","m">>,
       FileD, <<"1","a","B","_","-">>, <<"/","v","i","e","w">>, <<"/","u","c","?","e","x","p","o","r","t","=","v","i","e","w","&","i","d","=">> }

MaxUrlAtoms == 3

RECURSIVE Flatten(_)
Flatten(ss) == IF ss = <<>> THEN <<>> ELSE Head(ss) \o Flatten(Tail(ss))

Urls == {Flatten(ss) : ss \in SeqsUpTo(UrlAtoms, MaxUrlAtoms)}

\* the function is applied to a URL, then to its own result
InitDriveUrl ==
    /\ InitStore({NoItem})
    /\ cachedArticles = Null
    /\ page = <<>>
    /\ img = <<>>
    /\ call \in [fn : {"convertGoogleDriveUrl"}, arg : Urls, out : {<<>>}]

ApplyConvertGoogleDriveUrl ==
    /\ call # <<>>
    /\ call.fn = "convertGoogleDriveUrl"
    /\ Len(call.out) < 2
    /\ LET url == IF call.out = <<>> THEN call.arg ELSE call.out[Len(call.out)]
       IN  call' = [call EXCEPT !.out = Append(@, convertGoogleDriveUrl(url))]
    /\ UNCHANGED <<storeVars, cachedArticles, page, img>>

SpecDriveUrl == InitDriveUrl /\ [][ApplyConvertGoogleDriveUrl]_vars

----------------------------------------------------------------------------
(* createSlug applied to titles *)

HelloWorld == <<"H","e","l","l","o",","," ","W","o","r","l","d","!">>
SpacedHyphens == <<" "," ","-","-","-"," "," ">>

\* a title longer than the slug may be: 49 letters, a space, 3 letters
LongTitle ==
    [i \in 1..(SlugMax - 1) |-> "a"] \o <<" ", "b", "b", "b">>

TitleChars == {"A", "b", "7", "-", " ", "!"}

MaxTitleLen == 3

Titles == SeqsUpTo(TitleChars, MaxTitleLen) \cup {HelloWorld, SpacedHyphens, LongTitle}

InitSlug ==
    /\ InitStore({NoItem})
    /\ cachedArticles = Null
    /\ page = <<>>
    /\ img = <<>>
    /\ call \in [fn : {"createSlug"}, arg : Titles, out : {<<>>}]

ApplyCreateSlug ==
    /\ call # <<>>
    /\ call.fn = "createSlug"
    /\ call.out = <<>>
    /\ call' = [call EXCEPT !.out = <<createSlug(call.arg)>>]
    /\ UNCHANGED <<storeVars, cachedArticles, page, img>>

SpecSlug == InitSlug /\ [][ApplyCreateSlug]_vars

----------------------------------------------------------------------------
(* The parser on the text of the content root, App.js:44-90.  fullText is a   *)
(* sequence of characters in which each header marker 'News k (d/01/2024):'   *)
(* is one element, the string HeaderOf(d): what the pattern of App.js:45      *)
(* matches is then exactly the elements that are headers.                     *)

WhiteSpace == {" ", "\n", "\r", "\t"}
LineEnds == {"\n", "\r"}

HeaderOf(d) == "News 1 (" \o ToString(d) \o "/01/2024):"
Headers == {HeaderOf(d) : d \in 0..MaxTime}

\* currentMatch[2] of a header, as the day it names
dateStrOf(h) == CHOOSE d \in 0..MaxTime : HeaderOf(d) = h

\* the first index at or after i where sub occurs in s, 0 when there is none
RECURSIVE indexFrom(_, _, _)
indexFrom(sub, s, i) ==
    IF i + Len(sub) - 1 > Len(s) THEN 0
    ELSE IF OccursAt(sub, s, i) THEN i
    ELSE indexFrom(sub, s, i + 1)

\* \s* from index i: the first index at or after i that holds no white space
RECURSIVE skipSpace(_, _)
skipSpace(s, i) ==
    IF i <= Len(s) /\ s[i] \in WhiteSpace THEN skipSpace(s, i + 1) ELSE i

RECURSIVE trimEnd(_)
trimEnd(s) ==
    IF s # <<>> /\ s[Len(s)] \in WhiteSpace THEN trimEnd(SubSeq(s, 1, Len(s) - 1))
    ELSE s

\* String.prototype.trim
trim(s) == trimEnd(SubSeq(s, skipSpace(s, 1), Len(s)))

\* replace(/\s+/g, ' ')
RECURSIVE collapseFrom(_, _, _)
collapseFrom(s, i, inRun) ==
    IF i > Len(s) THEN <<>>
    ELSE IF s[i] \in WhiteSpace
         THEN (IF inRun THEN <<>> ELSE <<" ">>) \o collapseFrom(s, i + 1, TRUE)
         ELSE <<s[i]>> \o collapseFrom(s, i + 1, FALSE)

collapseSpace(s) == collapseFrom(s, 1, FALSE)

\* [^\n\r]* from index i
RECURSIVE lineFrom(_, _)
lineFrom(s, i) ==
    IF i > Len(s) \/ s[i] \in LineEnds THEN <<>> ELSE <<s[i]>> \o lineFrom(s, i + 1)

\* the markers, as the patterns' flag i compares them
HeadlineMarker == <<"h","e","a","d","l","i","n","e",":">>
ImageMarker == <<"i","m","a","g","e",":">>
BodyMarker == <<"b","o","d","y",":">>
AuthorMarker == <<"a","u","t","h","o","r",":">>

hasMarker(s, marker) == indexFrom(marker, toLowerCase(s), 1) # 0

\* ([^\n\r]*?)(?:\s*Image:|$) with the capture starting at w: the index after
\* the shortest capture that ends before '\s*Image:' or at the end of s; 0 when
\* a line end comes first
RECURSIVE headlineEnd(_, _)
headlineEnd(s, r) ==
    IF OccursAt(ImageMarker, toLowerCase(s), skipSpace(s, r)) THEN r
    ELSE IF r > Len(s) THEN r
    ELSE IF s[r] \in LineEnds THEN 0
    ELSE headlineEnd(s, r + 1)

\* articleContent.match(/Headline:\s*([^\n\r]*?)(?:\s*Image:|$)/i), App.js:56:
\* <<capture>>, or <<>> for null.  The occurrences of the marker are tried from
\* the left.
RECURSIVE headlineMatchFrom(_, _)
headlineMatchFrom(s, from) ==
    LET p == indexFrom(HeadlineMarker, toLowerCase(s), from)
    IN  IF p = 0 THEN <<>>
        ELSE LET w == skipSpace(s, p + Len(HeadlineMarker))
                 r == headlineEnd(s, w)
             IN  IF r = 0 THEN headlineMatchFrom(s, p + 1)
                 ELSE <<SubSeq(s, w, r - 1)>>

headlineMatch(s) == headlineMatchFrom(s, 1)

\* (.*?)(?:\s*Author:|$) with flag s, the capture starting at w
RECURSIVE bodyEnd(_, _)
bodyEnd(s, r) ==
    IF OccursAt(AuthorMarker, toLowerCase(s), skipSpace(s, r)) THEN r
    ELSE IF r > Len(s) THEN r
    ELSE bodyEnd(s, r + 1)

\* articleContent.match(/Body:\s*(.*?)(?:\s*Author:|$)/is), App.js:58
bodyMatch(s) ==
    LET p == indexFrom(BodyMarker, toLowerCase(s), 1)
    IN  IF p = 0 THEN <<>>
        ELSE LET w == skipSpace(s, p + Len(BodyMarker))
             IN  <<SubSeq(s, w, bodyEnd(s, w) - 1)>>

\* articleContent.match(/Author:\s*([^\n\r]*)/i), App.js:60
authorMatch(s) ==
    LET p == indexFrom(AuthorMarker, toLowerCase(s), 1)
    IN  IF p = 0 THEN <<>>
        ELSE <<lineFrom(s, skipSpace(s, p + Len(AuthorMarker)))>>

\* the three fields of one segment, App.js:56-61
fieldsOf(articleContent) ==
    LET hm == headlineMatch(articleContent)
        bm == bodyMatch(articleContent)
        am == authorMatch(articleContent)
    IN  [ headline |-> IF hm = <<>> THEN NoHeadline ELSE trim(hm[1]),
          body |-> IF bm = <<>> THEN NoContent ELSE trim(collapseSpace(bm[1])),
          author |-> IF am = <<>> THEN UnknownAuthor ELSE trim(am[1]) ]

\* the indices of the header markers of fullText, App.js:45
newsMatches(fullText) ==
    LET idx == {i \in 1..Len(fullText) : fullText[i] \in Headers}
        RECURSIVE asc(_)
        asc(S) == IF S = {} THEN <<>>
                  ELSE LET m == CHOOSE x \in S : \A y \in S : x <= y
                       IN  <<m>> \o asc(S \ {m})
    IN  asc(idx)

\* fullText.substring(startIndex, endIndex) of match i, App.js:50-53
articleContentOf(fullText, matches, i) ==
    SubSeq(fullText, matches[i] + 1,
           IF i < Len(matches) THEN matches[i + 1] - 1 ELSE Len(fullText))

\* the record pushed for match i, App.js:55-89
parseMatch(fullText, matches, i, now, rnd) ==
    LET f == fieldsOf(articleContentOf(fullText, matches, i))
        dateStr == dateStrOf(fullText[matches[i]])
    IN  [ id |-> <<"gdoc", now, rnd>>,
          date |-> parseDate([day |-> dateStr]),
          dateStr |-> <<dateStr>>,
          headline |-> f.headline,
          body |-> f.body,
          author |-> f.author,
          imageUrl |-> "",
          slug |-> createSlug(f.headline),
          isLocal |-> FALSE ]

\* App.js:44-90 on the text of the content root
parseFullText(fullText, now, rnds) ==
    LET matches == newsMatches(fullText)
    IN  SortByDateDesc([i \in 1..Len(matches) |->
                            parseMatch(fullText, matches, i, now, rnds[i])])

\* the pieces segments are made of
Chunks ==
    { << " ","H","e","a","d","l","i","n","e",":"," ","S","t","o","r","m" >>,
      << " ","H","e","a","d","l","i","n","e",":"," ","!","!" >>,
      << "\n" >>,
      << " ","I","m","a","g","e",":"," ","p","i","c" >>,
      << " ","B","o","d","y",":"," ","H","e","a","v","y"," "," ","r","a","i","n","." >>,
      << " ","A","u","t","h","o","r",":"," ","J","."," ","D","o","e" >> }

MaxChunks == 4

SegmentTexts == {Flatten(cs) : cs \in SeqsUpTo(Chunks, MaxChunks)}

\* four segments for the documents of several segments: a complete one, one
\* without Body:, one whose headline holds no letter or digit, and one whose
\* headline is ended by a line end
SampleSegments ==
    LET H == << " ","H","e","a","d","l","i","n","e",":"," ","S","t","o","r","m" >>
        X == << " ","H","e","a","d","l","i","n","e",":"," ","!","!" >>
        I == << " ","I","m","a","g","e",":"," ","p","i","c" >>
        B == << " ","B","o","d","y",":"," ","H","e","a","v","y"," "," ","r","a","i","n","." >>
        A == << " ","A","u","t","h","o","r",":"," ","J","."," ","D","o","e" >>
    IN  { H \o I \o B \o A, H \o I \o A, X \o I \o B \o A, H \o <<"\n">> \o B \o A }

\* the texts of a content root: one segment of any shape, or up to MaxSegs of
\* the sample segments under headers of any dates
FullTexts ==
    { <<HeaderOf(1)>> \o seg : seg \in SegmentTexts }
        \cup { Flatten(ss) : ss \in SeqsUpTo({ <<h>> \o seg : h \in Headers,
                                                 seg \in SampleSegments }, MaxSegs) }

InitParser ==
    /\ InitStore({NoItem})
    /\ cachedArticles = Null
    /\ page = <<>>
    /\ img = <<>>
    /\ call \in [fn : {"parseGoogleDocArticles"}, arg : FullTexts, out : {<<>>}]

ApplyParser ==
    /\ call # <<>>
    /\ call.fn = "parseGoogleDocArticles"
    /\ call.out = <<>>
    /\ \E rnds \in Rands(Len(newsMatches(call.arg))) :
           call' = [call EXCEPT !.out = <<parseFullText(call.arg, clock, rnds)>>]
    /\ UNCHANGED <<storeVars, cachedArticles, page, img>>

SpecParser == InitParser /\ [][ApplyParser]_vars

----------------------------------------------------------------------------
(* The <img> of an article and its onError handler, App.js:1108-1124 and     *)
(* 1408-1424.  img is the element: imageUrl is the article's, src, retried   *)
(* (dataset.retried) and hidden (the parent's display: none) are the         *)
(* element's, loaded says the load event has fired, loads counts the loads   *)
(* the element has started.  A load is in progress while the element is      *)
(* neither loaded nor hidden; the browser ends it with load or with error.   *)

AlternateHost ==
    <<"h","t","t","p","s",":","/","/","l","h","3",".","g","o","o","g","l","e",
      "u","s","e","r","c","o","n","t","e","n","t",".","c","o","m","/","d","/">>

IdParam == <<"i","d","=">>

\* [^&]+ from index i
RECURSIVE untilAmp(_, _)
untilAmp(s, i) ==
    IF i > Len(s) \/ s[i] = "&" THEN <<>> ELSE <<s[i]>> \o untilAmp(s, i + 1)

\* imageUrl.match(/id=([^&]+)/)?.[1]: <<fileId>>, or <<>> for undefined
RECURSIVE fileIdFrom(_, _)
fileIdFrom(url, from) ==
    LET p == indexFrom(IdParam, url, from)
    IN  IF p = 0 THEN <<>>
        ELSE LET id == untilAmp(url, p + Len(IdParam))
             IN  IF id = <<>> THEN fileIdFrom(url, p + 1) ELSE <<id>>

fileIdOf(url) == fileIdFrom(url, 1)

\* the image block is rendered for a non-empty imageUrl only; the URLs are what
\* convertGoogleDriveUrl returns
ImageUrls == {convertGoogleDriveUrl(u) : u \in Urls} \ {<<>>}

InitImage ==
    /\ InitStore({NoItem})
    /\ cachedArticles = Null
    /\ page = <<>>
    /\ call = <<>>
    /\ \E u \in ImageUrls :
           img = [ imageUrl |-> u, src |-> u, retried |-> FALSE, hidden |-> FALSE,
                   loaded |-> FALSE, loads |-> 1 ]

loadInProgress == img # <<>> /\ ~img.loaded /\ ~img.hidden

\* the browser fires load
ImageLoads ==
    /\ loadInProgress
    /\ img' = [img EXCEPT !.loaded = TRUE]
    /\ UNCHANGED <<storeVars, cachedArticles, page, call>>

\* faulty variant: the handler does not look at dataset.retried
onErrorRetrying ==
    LET fileId == fileIdOf(img.imageUrl)
    IN  IF fileId # <<>>
        THEN img' = [img EXCEPT !.retried = TRUE,
                                !.src = AlternateHost \o fileId[1],
                                !.loads = @ + 1]
        ELSE img' = [img EXCEPT !.hidden = TRUE]

\* the handler, App.js:1114-1123
onError ==
    LET fileId == fileIdOf(img.imageUrl)
    IN  IF fileId # <<>> /\ ~img.retried
        THEN img' = [img EXCEPT !.retried = TRUE,
                                !.src = AlternateHost \o fileId[1],
                                !.loads = @ + 1]
        ELSE img' = [img EXCEPT !.hidden = TRUE]

\* the browser fires error
ImageFails ==
    /\ loadInProgress
    /\ onError
    /\ UNCHANGED <<storeVars, cachedArticles, page, call>>

NextImage == ImageLoads \/ ImageFails

SpecImage == InitImage /\ [][NextImage]_vars

\* the load status of the element
ImageStatus(e) ==
    IF e.hidden THEN "failed-final"
    ELSE IF e.loaded THEN "loaded"
    ELSE IF e.retried THEN "failed-retry"
    ELSE "unresolved"

----------------------------------------------------------------------------
(* ArticlePage, App.js:305-339, on the route /:slug (App.js:501).  page is    *)
(* <<>> while another route is shown, else the component's state:             *)
(*   slug      : useParams().slug                                            *)
(*   article   : useState(null), <<>> is null                                *)
(*   pageError : useState(null)                                              *)
(*   deps      : <<articles, loading>> as the effect last saw them, <<>>     *)
(*               before its first run                                        *)
(*   clicked   : <<id>> of the card whose click opened the page, <<>> when   *)
(*               the URL was typed (history)                                 *)

\* the path /admin is the admin route and the path / the listing (App.js:500-502)
AdminSlug == <<"a","d","m","i","n">>
IsArticleRoute(s) == s # <<>> /\ s # AdminSlug

\* a slug no article of the model has
MissingSlug == <<"g","o","n","e">>

\* the slugs a URL typed by the user names
UrlSlugs == {createSlug(Storm), MissingSlug}

mountPage(s, clicked) ==
    /\ page = <<>>
    /\ IsArticleRoute(s)
    /\ page' = [slug |-> s, article |-> <<>>, pageError |-> Null, deps |-> <<>>,
                clicked |-> clicked]
    /\ UNCHANGED <<storeVars, cachedArticles, img, call>>

\* the application is loaded at the URL /<slug>
OpenFromUrl ==
    /\ ~mounted
    /\ \E s \in UrlSlugs : mountPage(s, <<>>)

\* handleArticleClick, App.js:206: a card of the listing is clicked; NewsViewer
\* shows the cards when it is neither loading nor in error (App.js:224-225)
OpenFromList ==
    /\ mounted
    /\ ~loading
    /\ error = Null
    /\ \E i \in 1..Len(articles) : mountPage(articles[i].slug, <<articles[i].id>>)

\* faulty variant: the first article of the list is taken
findFirst(s) == IF articles = <<>> THEN <<>> ELSE <<articles[1]>>

\* articles.find(a => a.slug === slug), App.js:314
findBySlug(s) ==
    LET hits == {i \in 1..Len(articles) : articles[i].slug = s}
    IN  IF hits = {} THEN <<>>
        ELSE <<articles[CHOOSE i \in hits : \A j \in hits : i <= j]>>

\* the effect, App.js:312-323: it runs after the first render and after every
\* render in which slug, articles or loading changed
PageEffect ==
    /\ page # <<>>
    /\ page.deps # <<articles, loading>>
    /\ LET found == findBySlug(page.slug)
       IN  page' = IF ~loading /\ Len(articles) > 0
                   THEN IF found # <<>>
                        THEN [page EXCEPT !.article = found, !.pageError = Null,
                                          !.deps = <<articles, loading>>]
                        ELSE [page EXCEPT !.article = <<>>,
                                          !.pageError = <<"Article not found">>,
                                          !.deps = <<articles, loading>>]
                   ELSE [page EXCEPT !.deps = <<articles, loading>>]
    /\ UNCHANGED <<storeVars, cachedArticles, img, call>>

\* "Back to News" / "Back to Home": navigate('/'), App.js:333, 346, 349
ClosePage ==
    /\ page # <<>>
    /\ page' = <<>>
    /\ UNCHANGED <<storeVars, cachedArticles, img, call>>

\* what ArticlePage renders, App.js:325-339
ArticleView ==
    IF loading THEN "loading"
    ELSE IF page.pageError # Null \/ page.article = <<>> THEN "notFound"
    ELSE "article"

\* the operations of the listing and of the admin dashboard, which are offered
\* while their route is shown
RefreshAtListing == page = <<>> /\ FetchArticles
AddAtAdmin == page = <<>> /\ AddArticle
DeleteAtAdmin == page = <<>> /\ DeleteArticle

NextWithArticlePage ==
    \/ Mount
    \/ ResponseOk
    \/ ResponseFailed
    \/ Tick
    \/ RefreshAtListing
    \/ AddAtAdmin
    \/ DeleteAtAdmin
    \/ OpenFromUrl
    \/ OpenFromList
    \/ PageEffect
    \/ ClosePage

SpecArticlePage == Init /\ [][NextWithArticlePage]_vars

----------------------------------------------------------------------------
(* Vocabulary of the properties *)

IsSortedDesc(s) == \A i, j \in 1..Len(s) : i < j => s[i].date >= s[j].date

\* the articles of s dated d, in the order of s
OnDate(s, d) == LET dated(a) == a.date = d IN SelectSeq(s, dated)

\* out is s sorted by date descending with ties in the order of s
IsStableSortOf(out, s) ==
    /\ Len(out) = Len(s)
    /\ IsSortedDesc(out)
    /\ \A d \in {s[i].date : i \in 1..Len(s)} \cup {out[i].date : i \in 1..Len(out)} :
           OnDate(out, d) = OnDate(s, d)

Slugs(s) == {s[i].slug : i \in 1..Len(s)}

Ids(s) == {s[i].id : i \in 1..Len(s)}

\* s without its k-th element
RemoveAt(s, k) == SubSeq(s, 1, k - 1) \o SubSeq(s, k + 1, Len(s))

\* the persisted local list, as articles
StoredLocalArticles ==
    IF storage.kind = "array"
    THEN [i \in 1..Len(storage.items) |-> Hydrate(storage.items[i])]
    ELSE <<>>

\* a refresh whose fetch succeeded has just completed
FetchSucceeded == last.op \in {"refreshOk", "refreshThrew"}

----------------------------------------------------------------------------
(* C1. A successful refresh sets the list to the persisted local articles     *)
(* followed by the parsed remote articles whose slug no local article has,    *)
(* sorted by date descending.  (A refresh leaves localStorage as it was, so   *)
(* the persisted list it read is the persisted list after it.)                *)

C1_Merged ==
    LET local == StoredLocalArticles
        unshadowed(a) == a.slug \notin Slugs(local)
    IN  IsStableSortOf(articles, local \o SelectSeq(last.gdoc, unshadowed))

\* C1 as stated: moreover a slug that a local and a remote article share is
\* the slug of exactly one article of the result, a local one
C1_Original ==
    last.op = "refreshOk" =>
        /\ C1_Merged
        /\ \A s \in Slugs(StoredLocalArticles) \cap Slugs(last.gdoc) :
               /\ Cardinality({i \in 1..Len(articles) : articles[i].slug = s}) = 1
               /\ \A i \in 1..Len(articles) : articles[i].slug = s => articles[i].isLocal

\* C1 as amended: a slug that a local and a remote article share is the slug
\* of no remote article of the result; the articles of the result with that slug
\* are the persisted local articles with that slug
C1_LeftBiasedUnion ==
    last.op = "refreshOk" =>
        /\ C1_Merged
        /\ \A s \in Slugs(StoredLocalArticles) \cap Slugs(last.gdoc) :
               LET has(a) == a.slug = s
               IN  /\ \A i \in 1..Len(articles) : has(articles[i]) => articles[i].isLocal
                   /\ Len(SelectSeq(articles, has)) = Len(SelectSeq(StoredLocalArticles, has))

\* a refresh merged a local article shadowing a remote one with a remote
\* article that is kept
C1_Witness ==
    /\ last.op = "refreshOk"
    /\ Slugs(StoredLocalArticles) \cap Slugs(last.gdoc) # {}
    /\ \E i \in 1..Len(articles) : ~articles[i].isLocal
    /\ \E i \in 1..Len(articles) : articles[i].isLocal

----------------------------------------------------------------------------
(* C2. deleteArticle(id) with the id of a listed remote article changes       *)
(* neither the list nor localStorage and alerts the user.                     *)

C2_RemoteDeleteRejected ==
    [][ ( /\ last'.op \in {"delete", "deleteRejected"}
          /\ \E i \in 1..Len(articles) :
                 articles[i].id = last'.id[1] /\ ~articles[i].isLocal )
        => ( articles' = articles /\ storage' = storage /\ last'.alert ) ]_vars

C2_Witness ==
    /\ last.op = "deleteRejected"
    /\ last.alert
    /\ \E i \in 1..Len(articles) : articles[i].id = last.id[1] /\ ~articles[i].isLocal

----------------------------------------------------------------------------
(* C3. In every reachable state no listed remote article has the slug of a    *)
(* listed local article.                                                      *)

C3_LocalSuppressesRemote ==
    \A i, j \in 1..Len(articles) :
        (articles[i].isLocal /\ ~articles[j].isLocal) => articles[i].slug # articles[j].slug

----------------------------------------------------------------------------
(* C4. After addArticle(draft) the list holds one new local article with the  *)
(* draft's headline, body and author and slug createSlug(headline); the        *)
(* articles listed before are all still listed; localStorage holds the new    *)
(* article.                                                                   *)

C4_AddAppendsLocal ==
    [][ last'.op = "add" =>
          LET d == last'.draft[1]
          IN  \E k \in 1..Len(articles') :
                  LET n == articles'[k]
                  IN  /\ n.isLocal
                      /\ n.headline = d.headline
                      /\ n.body = d.body
                      /\ n.author = d.author
                      /\ n.slug = createSlug(d.headline)
                      /\ RemoveAt(articles', k) = articles
                      /\ storage'.kind = "array"
                      /\ \E j \in 1..Len(storage'.items) :
                             Hydrate(storage'.items[j]) = n ]_vars

C4_Witness ==
    /\ last.op = "add"
    /\ Len(articles) >= 2
    /\ \E i \in 1..Len(articles) : ~articles[i].isLocal

----------------------------------------------------------------------------
(* C5. After deleteArticle(id) with the id of a listed local article, neither *)
(* the list nor localStorage holds an article with that id, in that same step. *)

C5_LocalDeleteIsDurable ==
    [][ ( /\ last'.op \in {"delete", "deleteRejected"}
          /\ \E i \in 1..Len(articles) :
                 articles[i].id = last'.id[1] /\ articles[i].isLocal )
        => ( /\ last'.id[1] \notin Ids(articles')
             /\ storage'.kind = "array"
             /\ last'.id[1] \notin Ids(storage'.items) ) ]_vars

\* a listed local article was deleted (a remote id is rejected, and the only
\* unlisted id the model passes is UnlistedId) and another article remains
C5_Witness ==
    /\ last.op = "delete"
    /\ last.id[1] # UnlistedId
    /\ articles # <<>>

----------------------------------------------------------------------------
(* C6. In every reachable state the listed articles have pairwise distinct    *)
(* ids.                                                                       *)

C6_DistinctIds ==
    \A i, j \in 1..Len(articles) : i # j => articles[i].id # articles[j].id

----------------------------------------------------------------------------
(* C7. In every reachable state the list is ordered by date descending, and   *)
(* articles of equal date are in the order they had in the array that the     *)
(* last operation sorted.                                                     *)

C7_SortedStable == IsStableSortOf(articles, last.presort)

\* the last operation's sort moved an article, and two listed articles tie
C7_Witness ==
    /\ last.presort # articles
    /\ \E i, j \in 1..Len(articles) : i < j /\ articles[i].date = articles[j].date

----------------------------------------------------------------------------
(* C8. A refresh whose fetch fails ends with error a non-empty message and    *)
(* loading false, and changes neither the list nor localStorage: neither the  *)
(* step that starts a refresh nor the step in which its fetch fails does.     *)

C8_FailedRefreshKeepsState ==
    [][ /\ last'.op \in {"mount", "fetchArticles"} =>
              (articles' = articles /\ storage' = storage)
        /\ last'.op = "refreshFailed" =>
              /\ error' # Null
              /\ error'[1] # ""
              /\ loading' = FALSE
              /\ articles' = articles
              /\ storage' = storage ]_vars

\* a refresh failed while a list with local and remote articles was shown
C8_Witness ==
    /\ last.op = "refreshFailed"
    /\ error # Null
    /\ \E i \in 1..Len(articles) : ~articles[i].isLocal
    /\ storage.kind = "array"

----------------------------------------------------------------------------
(* C9. A refresh whose fetch succeeded ends with error = null, whatever the   *)
(* document and whatever localStorage holds.                                  *)

C9_OnlyFetchFailureIsAnError == FetchSucceeded => error = Null

----------------------------------------------------------------------------
(* C10. A refresh whose fetch succeeded with a document that has neither      *)
(* .doc-content nor #contents parses no article, ends with error = null and   *)
(* lists exactly the persisted local articles.                                *)

C10_NoContainerIsEmptyNotError ==
    (FetchSucceeded /\ last.root = "none") =>
        /\ last.gdoc = <<>>
        /\ error = Null
        /\ IsStableSortOf(articles, StoredLocalArticles)

C10_Witness ==
    /\ last.op = "refreshOk"
    /\ last.root = "none"
    /\ articles # <<>>

\* u is a resolved URL: the export-view prefix followed by a file id
IsResolved(u) ==
    /\ Len(u) > Len(ExportView)
    /\ SubSeq(u, 1, Len(ExportView)) = ExportView
    /\ \A i \in (Len(ExportView) + 1)..Len(u) : u[i] \in FileIdChars

\* the maximal runs of characters of [a-z0-9] in s, from index i on
RECURSIVE C17_WordsFrom(_, _)
C17_WordsFrom(s, i) ==
    IF i > Len(s) THEN <<>>
    ELSE IF s[i] \notin SlugChars THEN C17_WordsFrom(s, i + 1)
    ELSE LET w == RunFrom(s, i, SlugChars) IN <<w>> \o C17_WordsFrom(s, i + Len(w))

\* the words joined by single hyphens
RECURSIVE C17_JoinHyphen(_)
C17_JoinHyphen(ws) ==
    IF ws = <<>> THEN <<>>
    ELSE IF Len(ws) = 1 THEN ws[1]
    ELSE ws[1] \o <<"-">> \o C17_JoinHyphen(Tail(ws))

\* the first SlugMax characters of the hyphen-joined alphanumeric words of the
\* lower-cased title
C17_SlugOfWords(title) ==
    LET joined == C17_JoinHyphen(C17_WordsFrom(toLowerCase(title), 1))
    IN  SubSeq(joined, 1, Min(SlugMax, Len(joined)))

----------------------------------------------------------------------------
(* The first refresh with articles added during it: the mount effect starts  *)
(* the fetch, AdminDashboard (route /admin) adds articles while it is in     *)
(* flight, and the fetch settles.                                            *)

AddArticleInFlight == pending > 0 /\ AddArticle

NextAddInFlight == Mount \/ AddArticleInFlight \/ ResponseOk \/ ResponseFailed \/ Tick

SpecAddInFlight == Init /\ [][NextAddInFlight]_vars

----------------------------------------------------------------------------
(* The store with its scheduling: React runs the mount effect after the      *)
(* first render, and every fetch in flight is eventually settled by the      *)
(* network, with an ok response or with a failure.  The operations are those *)
(* of Spec at one reading of the clock: no step of a refresh waits on it.    *)

NextScheduled ==
    \/ Mount
    \/ FetchArticles
    \/ ResponseOk
    \/ ResponseFailed
    \/ AddArticle
    \/ DeleteArticle

FairSpec ==
    /\ Init
    /\ [][NextScheduled]_vars
    /\ WF_vars(Mount)
    /\ WF_vars(ResponseOk \/ ResponseFailed)

----------------------------------------------------------------------------
(* useNews, App.js:604-643: the variant that keeps the parsed list in the    *)
(* module-level variable cachedArticles.  articles, loading and error are    *)
(* the hook's state (App.js:608-610), which starts as the store's does while *)
(* the cache is null.  The hook returns fetchNews (App.js:642): NewsViewer    *)
(* calls fetchNews(true) from its buttons, and a consumer may call it        *)
(* without force.                                                            *)

UnknownPlaceholder == <<"U","n","k","n","o","w","n">>

\* `Article ${i + 1}`, App.js:566, for the i-th match counted from 1
ArticleN(i) == <<"A","r","t","i","c","l","e"," ">> \o <<ToString(i)>>

\* one iteration of newsMatches.forEach, App.js:556-596
parseArticleOf(seg, i) ==
    LET headline == IF seg.headline = <<>> THEN ArticleN(i) ELSE seg.headline[1]
        body == IF seg.body = <<>> THEN NoContent ELSE seg.body[1]
        author == IF seg.author = <<>> THEN UnknownPlaceholder ELSE seg.author[1]
        date == parseDate(seg.dateStr)
    IN  [ id |-> <<createSlug(headline), date>>,
          date |-> date,
          dateStr |-> <<seg.dateStr.day>>,
          headline |-> headline,
          body |-> body,
          author |-> author,
          imageUrl |-> "",
          slug |-> createSlug(headline) ]

\* App.js:549-600
parseArticles(htmlContent) ==
    IF htmlContent.root = "none" THEN <<>>
    ELSE SortByDateDesc([i \in 1..Len(htmlContent.segs) |->
                            parseArticleOf(htmlContent.segs[i], i)])

\* the name the history gives a call of fetchNews
fetchNewsOp(force) == IF force THEN "fetchNews(true)" ELSE "fetchNews()"

\* faulty variant: the cache is not consulted
fetchNewsIgnoringCache(force) ==
    /\ loading' = TRUE
    /\ error' = Null
    /\ pending' = pending + 1
    /\ last' = Hist(fetchNewsOp(force))
    /\ UNCHANGED <<articles, cachedArticles, settled>>
    /\ UNCHANGED <<storage, clock, page, img, call>>

\* fetchNews up to its return or to the await of fetch, App.js:612-621
fetchNews(force) ==
    /\ IF cachedArticles # Null /\ ~force
       THEN /\ articles' = cachedArticles[1]
            /\ loading' = FALSE
            /\ UNCHANGED <<error, pending, settled, cachedArticles>>
       ELSE /\ loading' = TRUE
            /\ error' = Null
            /\ pending' = pending + 1
            /\ UNCHANGED <<articles, cachedArticles, settled>>
    /\ last' = Hist(fetchNewsOp(force))
    /\ UNCHANGED <<storage, clock, page, img, call>>

\* the effect of useNews, App.js:636-640
MountNews ==
    /\ ~mounted
    /\ mounted' = TRUE
    /\ IF cachedArticles = Null
       THEN fetchNews(FALSE)
       ELSE /\ last' = Hist("mount")
            /\ UNCHANGED <<articles, loading, error, pending, settled, cachedArticles,
                           storage, clock, page, img, call>>

\* "Refresh News" / "Try Again", App.js:748, 768: rendered when loading is false
RefreshNews ==
    /\ mounted
    /\ ~loading
    /\ pending < MaxInFlight
    /\ fetchNews(TRUE)
    /\ UNCHANGED mounted

\* a consumer of the hook calls fetchNews; the function has no guard
CallFetchNews ==
    /\ mounted
    /\ \E force \in BOOLEAN :
           /\ (cachedArticles = Null \/ force) => pending < MaxInFlight
           /\ fetchNews(force)
    /\ UNCHANGED mounted

\* faulty variant: a failed fetch drops the cache
newsRejectedDroppingCache(message) ==
    /\ pending > 0
    /\ error' = <<message>>
    /\ cachedArticles' = Null
    /\ loading' = FALSE
    /\ pending' = pending - 1
    /\ last' = Hist("newsFailed")
    /\ UNCHANGED <<articles, mounted, settled>>
    /\ UNCHANGED <<storage, clock, page, img, call>>

\* the fetch rejects or the status is not ok: catch and finally, App.js:622, 628-633
newsRejected(message) ==
    /\ pending > 0
    /\ error' = <<message>>
    /\ loading' = FALSE
    /\ pending' = pending - 1
    /\ last' = Hist("newsFailed")
    /\ UNCHANGED <<articles, cachedArticles, mounted, settled>>
    /\ UNCHANGED <<storage, clock, page, img, call>>

\* the response is ok: App.js:623-627, then finally
newsResolved(htmlContent) ==
    /\ pending > 0
    /\ LET parsed == parseArticles(htmlContent)
       IN  /\ cachedArticles' = <<parsed>>
           /\ articles' = parsed
           /\ last' = [Hist("newsOk") EXCEPT !.gdoc = parsed, !.root = htmlContent.root]
    /\ loading' = FALSE
    /\ pending' = pending - 1
    /\ UNCHANGED <<error, mounted, settled>>
    /\ UNCHANGED <<storage, clock, page, img, call>>

NewsOk == \E htmlContent \in Docs : newsResolved(htmlContent)

NewsFailed == \E message \in {"Failed to fetch: Not Found"} \cup TransportMessages :
                  newsRejected(message)

NextCached == MountNews \/ RefreshNews \/ CallFetchNews \/ NewsOk \/ NewsFailed

SpecCached == InitWith({NoItem}) /\ [][NextCached]_vars

----------------------------------------------------------------------------
(* C11. When two refreshes overlap and both fetches succeed, the list left    *)
(* once both have settled is the merge computed from the response that        *)
(* settled last, whichever of the two was issued first.                        *)

C11_LastResponseWins ==
    ( /\ pending = 0
      /\ Len(settled) >= 2
      /\ \A i \in 1..Len(settled) : settled[i].outcome = "ok"
      /\ last.op = "refreshOk" )
    => articles = SortByDateDesc(combine(StoredLocalArticles, last.gdoc))

\* two overlapping fetches have both succeeded, the one issued second first,
\* and the two responses gave different lists
C11_Witness ==
    /\ pending = 0
    /\ Len(settled) = 2
    /\ settled[1] = [outcome |-> "ok", k |-> 2]
    /\ settled[2] = [outcome |-> "ok", k |-> 1]
    /\ last.op = "refreshOk"
    /\ Len(last.gdoc) = 2
    /\ Len(articles) = 3

----------------------------------------------------------------------------
(* C12. A fetch is issued only by the mount effect, once, and by a refresh    *)
(* the user asks for; a failed fetch issues none, and after it the store      *)
(* keeps its error with no fetch in flight until the user asks for a refresh. *)

C12_NoAutomaticRetry ==
    [][ /\ pending' > pending =>
              /\ pending' = pending + 1
              /\ last'.op \in {"mount", "fetchArticles"}
        /\ last'.op = "mount" => ~mounted
        /\ last'.op = "refreshFailed" => (pending' = pending - 1 /\ error' # Null)
        /\ (error # Null /\ pending = 0 /\ last'.op # "fetchArticles") =>
              (error' = error /\ pending' = 0 /\ loading' = FALSE) ]_vars

\* a refresh failed, and the store still shows the error after other operations
C12_Witness ==
    /\ error # Null
    /\ pending = 0
    /\ last.op = "add"
    /\ Len(settled) = 1
    /\ settled[1].outcome = "failed"

----------------------------------------------------------------------------
(* C13. The record a refresh re-hydrates from localStorage equals the record  *)
(* addArticle stored, date included: addArticle persists the JSON text of the *)
(* record it lists, that text reads back as the same record, and a successful *)
(* refresh lists every persisted local record that was listed before it.      *)

----------------------------------------------------------------------------
(* C14. In every reachable state every article of the persisted local list    *)
(* is a local article.                                                        *)

C14_OnlyLocalPersisted ==
    \A i \in 1..Len(storage.items) : storage.items[i].isLocal

\* addArticle or deleteArticle has saved a list that holds a remote article
C14_Witness ==
    /\ last.op \in {"add", "delete"}
    /\ storage.kind = "array"
    /\ storage.items # <<>>
    /\ \E i \in 1..Len(articles) : ~articles[i].isLocal

----------------------------------------------------------------------------
(* C15. While ArticlePage is shown for route slug s: when loading is false    *)
(* and no listed article has slug s it renders the not-found state, and when  *)
(* it renders an article that article has slug s.                             *)

----------------------------------------------------------------------------
(* C16. convertGoogleDriveUrl applied to its own result returns that result,  *)
(* and it returns a resolved uc?export=view&id=<ID> URL unchanged.            *)

C16_ConvertIdempotent ==
    (call # <<>> /\ call.fn = "convertGoogleDriveUrl") =>
        /\ Len(call.out) = 2 => call.out[2] = call.out[1]
        /\ (Len(call.out) >= 1 /\ IsResolved(call.arg)) => call.out[1] = call.arg

\* a /file/d/ link was rewritten to a resolved URL, and the function was
\* applied again to that URL
C16_Witness ==
    /\ call # <<>>
    /\ call.fn = "convertGoogleDriveUrl"
    /\ Len(call.out) = 2
    /\ call.out[1] # call.arg
    /\ IsResolved(call.out[1])

----------------------------------------------------------------------------
(* C17. createSlug(title) is the lower-cased title with every maximal run of   *)
(* characters outside [a-z0-9] replaced by one hyphen, leading and trailing    *)
(* hyphens removed, cut to its first 50 characters: the alphanumeric words of  *)
(* the lower-cased title joined by hyphens, cut to 50 characters.  In          *)
(* particular "Hello, World!" gives "hello-world", and "" and "  ---  " give "". *)

C17_SlugIsNormalisedTitle ==
    (call # <<>> /\ call.fn = "createSlug" /\ call.out # <<>>) =>
        /\ call.out[1] = C17_SlugOfWords(call.arg)
        /\ call.arg = HelloWorld => call.out[1] = <<"h","e","l","l","o","-","w","o","r","l","d">>
        /\ call.arg = <<>> => call.out[1] = <<>>
        /\ call.arg = SpacedHyphens => call.out[1] = <<>>

\* createSlug has been applied to "Hello, World!"
C17_Witness ==
    /\ call # <<>>
    /\ call.fn = "createSlug"
    /\ call.arg = HelloWorld
    /\ call.out = <<<<"h","e","l","l","o","-","w","o","r","l","d">>>>

----------------------------------------------------------------------------
(* C18. For a text of the content root that holds N header markers the parser  *)
(* returns exactly N records, ordered by date descending, and every record     *)
(* has a non-empty slug.                                                       *)

C18_OneRoutableRecordPerMarker ==
    (call # <<>> /\ call.fn = "parseGoogleDocArticles" /\ call.out # <<>>) =>
        LET recs == call.out[1]
            N == Cardinality({i \in 1..Len(call.arg) : call.arg[i] \in Headers})
        IN  /\ Len(recs) = N
            /\ \A i \in 1..(Len(recs) - 1) : recs[i].date >= recs[i + 1].date
            /\ \A i \in 1..Len(recs) : recs[i].slug # <<>>

----------------------------------------------------------------------------
(* C19. For every segment of a parsed text, each of headline, body and author  *)
(* equals its placeholder if and only if the field's marker is absent from the *)
(* segment, and the fields of a segment are those the segment gives when it is *)
(* the only segment of the text (a marker missing elsewhere changes nothing).  *)

C19_PlaceholderIffMarkerAbsent ==
    (call # <<>> /\ call.fn = "parseGoogleDocArticles" /\ call.out # <<>>) =>
        LET fullText == call.arg
            matches == newsMatches(fullText)
            recs == call.out[1]
        IN  \A i \in 1..Len(matches) :
                LET seg == articleContentOf(fullText, matches, i)
                    alone == parseFullText(<<fullText[matches[i]]>> \o seg, clock, <<0>>)[1]
                IN  /\ \E j \in 1..Len(recs) :
                           /\ recs[j].dateStr = alone.dateStr
                           /\ recs[j].headline = alone.headline
                           /\ recs[j].body = alone.body
                           /\ recs[j].author = alone.author
                    /\ (alone.headline = NoHeadline) <=> ~hasMarker(seg, HeadlineMarker)
                    /\ (alone.body = NoContent) <=> ~hasMarker(seg, BodyMarker)
                    /\ (alone.author = UnknownAuthor) <=> ~hasMarker(seg, AuthorMarker)

----------------------------------------------------------------------------
(* C20. The load status of an article image moves only along                   *)
(* unresolved -> loaded | failed-retry | failed-final and                      *)
(* failed-retry -> loaded | failed-final.  The alternate-host URL is assigned  *)
(* once at most and only when the primary URL has failed and holds a file id;  *)
(* when the alternate URL fails, or the primary fails and holds no file id,    *)
(* the block is hidden, and a hidden or loaded element starts no further load. *)

C20_ImageLoadChain ==
    [][ (img # <<>> /\ img' # img) =>
          LET from == ImageStatus(img)
              to == ImageStatus(img')
              fileId == fileIdOf(img.imageUrl)
          IN  /\ <<from, to>> \in { <<"unresolved", "loaded">>,
                                   <<"unresolved", "failed-retry">>,
                                   <<"unresolved", "failed-final">>,
                                   <<"failed-retry", "loaded">>,
                                   <<"failed-retry", "failed-final">> }
              /\ img'.imageUrl = img.imageUrl
              /\ to = "failed-retry" =>
                     /\ fileId # <<>>
                     /\ img.src = img.imageUrl
                     /\ img'.src = AlternateHost \o fileId[1]
                     /\ img'.loads = 2
              /\ to # "failed-retry" => img'.src = img.src /\ img'.loads = img.loads
              /\ (from = "unresolved" /\ to = "failed-final") => fileId = <<>>
      ]_vars

\* the primary URL and then the alternate URL have failed: the block is hidden
C20_Witness ==
    /\ img # <<>>
    /\ img.hidden
    /\ img.retried
    /\ img.loads = 2
    /\ img.src = AlternateHost \o fileIdOf(img.imageUrl)[1]

----------------------------------------------------------------------------
(* C21. In the variant with the cache: fetchNews called without force while    *)
(* the cache is populated issues no request and ends with articles = the       *)
(* cached list and loading = false; fetchNews(true) always issues a request;   *)
(* a successful response replaces both the cache and the article list with     *)
(* the newly parsed list.                                                      *)

C21_CacheShortCircuit ==
    [][ /\ (last'.op = "fetchNews()" /\ cachedArticles # Null) =>
              /\ pending' = pending
              /\ articles' = cachedArticles[1]
              /\ loading' = FALSE
              /\ cachedArticles' = cachedArticles
        /\ last'.op = "fetchNews(true)" =>
              /\ pending' = pending + 1
              /\ loading' = TRUE
        /\ last'.op = "newsOk" =>
              /\ \E htmlContent \in Docs : last'.gdoc = parseArticles(htmlContent)
              /\ cachedArticles' = <<last'.gdoc>>
              /\ articles' = last'.gdoc
      ]_vars

\* fetchNews() has returned the cached list while a forced refresh is in flight
C21_Witness ==
    /\ last.op = "fetchNews()"
    /\ cachedArticles # Null
    /\ Len(cachedArticles[1]) = 2
    /\ articles = cachedArticles[1]
    /\ ~loading
    /\ pending = 1

----------------------------------------------------------------------------
(* C22. A persisted local article leaves the persisted list only by the        *)
(* deleteArticle of its own id: every other step (add, refresh, a rejected     *)
(* delete, a delete of another or of an unlisted id) keeps every article that  *)
(* was persisted before it.                                                    *)

C22_PersistedKeptUnlessDeleted ==
    [][ \A i \in 1..Len(storage.items) :
            \/ storage.items[i] \in Range(storage'.items)
            \/ last'.op = "delete" /\ last'.id = <<storage.items[i].id>>
      ]_vars

----------------------------------------------------------------------------
(* C23. Whenever no fetch is in flight and the refresh that completed last     *)
(* succeeded, error is null, whatever earlier or overlapping refreshes did.    *)

C23_NoErrorAfterSuccess ==
    (pending = 0 /\ settled # <<>> /\ settled[Len(settled)].outcome = "ok"
        /\ last.op = "refreshOk")
        => error = Null

----------------------------------------------------------------------------
(* C24. Whenever a fetch issued by a refresh is in flight, loading is true,    *)
(* also after one of two overlapping refreshes has completed.                  *)

C24_LoadingWhileInFlight == pending > 0 => loading

----------------------------------------------------------------------------
(* C25. A local article added while a refresh is in flight is in the list this *)
(* refresh sets when it succeeds: addArticle lists and persists the new        *)
(* article, and every local article listed when the response arrives is in    *)
(* the list the refresh sets.                                                  *)

C25_AddedInFlightSurvivesRefresh ==
    [][ /\ (last'.op = "add" /\ pending > 0) =>
              LET n == newArticle(last'.draft[1], clock)
              IN  /\ n \in Range(articles')
                  /\ Stringify(n) \in Range(storage'.items)
        /\ last'.op \in {"refreshOk", "refreshFailed", "add", "tick"} =>
              \A i \in 1..Len(articles) :
                  articles[i].isLocal => articles[i] \in Range(articles')
      ]_vars

\* the first refresh has succeeded and lists an article added during it
C25_Witness ==
    /\ last.op = "refreshOk"
    /\ pending = 0
    /\ last.gdoc # <<>>
    /\ \E i \in 1..Len(articles) :
           /\ articles[i].isLocal
           /\ articles[i].id # EarlierArticle.id

----------------------------------------------------------------------------
(* C26. Every refresh whose fetch settles reaches loading = false: with the    *)
(* list it merged and error still null as its start set it, or with error set *)
(* to a message.  The store never stays in the loading state forever.          *)

C26_RefreshEndsLoading ==
    /\ (pending > 0) ~>
           /\ ~loading
           /\ pending = 0
           /\ \/ last.op = "refreshOk" /\ error = Null
                    /\ articles = SortByDateDesc(combine(StoredLocalArticles, last.gdoc))
              \/ last.op = "refreshFailed" /\ error # Null
    /\ loading ~> ~loading

\* a refresh has ended in failure: loading is false and the message is set
C26_Witness ==
    /\ last.op = "refreshFailed"
    /\ ~loading
    /\ pending = 0
    /\ error = <<"Failed to fetch base news">>
    /\ articles = <<>>

----------------------------------------------------------------------------
(* C27. Clicking the card of any listed article opens an article page that,    *)
(* once its effect has run, displays the article that was clicked (same id),   *)
(* also when another listed article has the same slug.                         *)

C27_ClickedArticleIsDisplayed ==
    (page # <<>> /\ page.clicked # <<>> /\ page.deps = <<articles, loading>>) =>
        /\ ArticleView = "article"
        /\ page.article[1].id = page.clicked[1]

----------------------------------------------------------------------------
(* C28. addArticle and deleteArticle never change the remote articles of the   *)
(* list: the sub-sequence of the articles that are not local, with all their   *)
(* fields, is the same before and after every add, every delete and every      *)
(* rejected delete.                                                            *)

C28_RemoteOf(s) ==
    LET isRemote(a) == ~a.isLocal IN SelectSeq(s, isRemote)

C28_AddDeleteKeepRemote ==
    [][ last'.op \in {"add", "delete", "deleteRejected"} =>
            C28_RemoteOf(articles') = C28_RemoteOf(articles) ]_vars

\* an add whose article the sort has moved behind a remote article
C28_Witness ==
    /\ last.op = "add"
    /\ Len(articles) >= 2
    /\ ~articles[1].isLocal
    /\ articles[2].id = <<"local", clock, 0>>

----------------------------------------------------------------------------
(* C29. In the cached variant the module-level cache is written only by a      *)
(* fetch that succeeded and was parsed: a step that changes cachedArticles is  *)
(* the success path of fetchNews, a failed fetch leaves the cache as it was,   *)
(* and a populated cache is never null again.                                  *)

C29_CacheWrittenOnlyBySuccess ==
    [][ /\ cachedArticles' # cachedArticles => last'.op = "newsOk"
        /\ last'.op = "newsFailed" => cachedArticles' = cachedArticles
        /\ cachedArticles # Null => cachedArticles' # Null ]_vars

\* a forced refresh has failed while the cache was populated
C29_Witness ==
    /\ last.op = "newsFailed"
    /\ cachedArticles # Null
    /\ error # Null

----------------------------------------------------------------------------
(* C30. For every title, createSlug returns at most 50 characters, all of them *)
(* in [a-z0-9-], with no hyphen at the start, none at the end and no two       *)
(* hyphens in a row.                                                           *)

C30_SlugIsWellFormed ==
    (call # <<>> /\ call.fn = "createSlug" /\ call.out # <<>>) =>
        LET slug == call.out[1]
        IN  /\ Len(slug) <= SlugMax
            /\ \A i \in 1..Len(slug) : slug[i] \in SlugChars \cup {"-"}
            /\ slug # <<>> => slug[1] # "-" /\ slug[Len(slug)] # "-"
            /\ \A i \in 1..(Len(slug) - 1) : ~(slug[i] = "-" /\ slug[i + 1] = "-")

====
